---- MODULE Spec2Model ----
(***************************************************************************)
(* Document service, bookmark utilities, processing-status store, job queue *)
(* and worker of the asset ingestion pipeline.                              *)
(*                                                                         *)
(* The document operations are translated from                             *)
(* apps/backend/src/lib/services/documents.ts; extractContentFromHtml and   *)
(* generateBookmarkTags from the bookmark worker's utilities.  The          *)
(* processing-status store (createOrUpdateProcessingJob, advanceStage,      *)
(* retryAssetProcessing), the queue (enqueue with jobId dedup), the worker  *)
(* loop and getOrCreateTags are not part of the sources at hand; they       *)
(* follow sections 3, 4.5, 4.6 and 5 of the specification.  The channel     *)
(* operations are translated from apps/backend/src/lib/services/channels.ts; *)
(* the Telegram bot registry behind startTelegramBot and stopTelegramBot is  *)
(* not part of the sources at hand either.                                  *)
(***************************************************************************)
EXTENDS Integers, Sequences, FiniteSets, TLC

\* ------------------------------------------------------------------ bounds
MaxDocs == 1
MaxJobs == 3
MaxNodes == 2
MaxItems == 6
MaxImages == 3
MaxChannels == 2

\* ------------------------------------------------------------- value sets
Users == {"u1", "u2"}
TagNames == {"t1"}
DocIds == 1..MaxDocs
WorkerIds == {1, 2}

DocumentStagesEmpty == <<>>

\* The stage set createDocument declares for a document.
DocumentStages == <<"processing">>

\* Stage sets other callers of the processing-status store declare.
StageNameLists == {<<"extract", "tag">>}

VARIABLES
    documents,            \* documents table: id -> row
    blobs,                \* object storage: set of storage ids
    tags,                 \* tags table: set of rows [id, userId, name]
    documentsTags,        \* join table: set of <<documentId, tagId>>
    assetProcessingJobs,  \* processing-job records of type "documents": assetId -> record
    queue,                \* document-processing queue: non-terminal jobs, FIFO
    workers,              \* each worker's position in its current job
    nextDocumentId,       \* generateDocumentId: next fresh id
    nextJobSeq,           \* sequence number the next job added to the queue gets
    latestJob,            \* assetId -> sequence number of the newest job added for it
    last,                 \* the operation that produced this state, and its result
    call,                 \* the last call of a utility: its inputs and what it returned
    taggers,              \* concurrent calls of addTagsToDocument: each one's position
    channels,             \* channels table: id -> row
    bots,                 \* the channels a Telegram bot is running for
    nextChannelId         \* next fresh channel id

vars == <<documents, blobs, tags, documentsTags, assetProcessingJobs, queue,
          workers, nextDocumentId, nextJobSeq, latestJob, last, call,
          taggers, channels, bots, nextChannelId>>

\* --------------------------------------------------------------- helpers
Range(s) == {s[i] : i \in 1..Len(s)}

Without(f, k) == [x \in DOMAIN f \ {k} |-> f[x]]

With(f, k, v) == [x \in DOMAIN f \cup {k} |-> IF x = k THEN v ELSE f[x]]

\* What the last operation was: its name, document, caller, force flag, result,
\* and a note on what it did to the queue or on the standing of the writer.
Op(op, doc, user, force, result, note) ==
    [op |-> op, doc |-> doc, user |-> user, force |-> force, result |-> result,
     note |-> note]

NoCall == [fn |-> "none"]

TaggerIds == {1, 2, 3}

IdleTagger == [pc |-> "idle", doc |-> 0, user |-> "-", names |-> {}, rows |-> {}]

IdleWorker == [seq |-> 0, jobId |-> 0, stageNames |-> <<>>, idx |-> 0, pc |-> "idle"]

\* ------------------------------------------- processing-status store (4.5)
\* Overall status derived from the stage statuses.
DeriveStatus(stages) ==
    IF \A n \in DOMAIN stages : stages[n] = "completed" THEN "completed"
    ELSE IF \E n \in DOMAIN stages : stages[n] = "failed" THEN "failed"
    ELSE "processing"

\* A record as it is written by an upsert: initial status processing, every
\* declared stage in stageStatus.
NewJobRecord(stageNames, stageStatus) ==
    [status |-> "processing",
     stageNames |-> stageNames,
     stages |-> [n \in Range(stageNames) |-> stageStatus],
     errorMessage |-> "none"]

createOrUpdateProcessingJob(table, assetId, stageNames) ==
    With(table, assetId, NewJobRecord(stageNames, "pending"))

advanceStageFenced(table, assetId, stageName, outcome, detail, seq) ==
    IF assetId \notin DOMAIN table
       \/ stageName \notin DOMAIN table[assetId].stages
       \/ seq < latestJob[assetId]
    THEN table
    ELSE LET st == [table[assetId].stages EXCEPT ![stageName] = outcome]
         IN With(table, assetId,
                 [table[assetId] EXCEPT
                    !.stages = st,
                    !.status = DeriveStatus(st),
                    !.errorMessage = IF outcome = "failed" THEN detail ELSE @])

advanceStageDropsFailure(table, assetId, stageName, outcome, detail, seq) ==
    IF assetId \notin DOMAIN table \/ stageName \notin DOMAIN table[assetId].stages
    THEN table
    ELSE LET st == [table[assetId].stages EXCEPT ![stageName] = outcome]
         IN With(table, assetId,
                 [table[assetId] EXCEPT
                    !.stages = st,
                    !.status = IF \A n \in DOMAIN st : st[n] = "completed"
                               THEN "completed" ELSE "processing",
                    !.errorMessage = IF outcome = "failed" THEN detail ELSE @])

\* Transitions one stage and recomputes the overall status; an update of a record
\* or stage that does not exist changes nothing.  The write is unconditional: the
\* store keeps no generation of the job that may write.
advanceStage(table, assetId, stageName, outcome, detail, seq) ==
    IF assetId \notin DOMAIN table \/ stageName \notin DOMAIN table[assetId].stages
    THEN table
    ELSE LET st == [table[assetId].stages EXCEPT ![stageName] = outcome]
         IN With(table, assetId,
                 [table[assetId] EXCEPT
                    !.stages = st,
                    !.status = DeriveStatus(st),
                    !.errorMessage = IF outcome = "failed" THEN detail ELSE @])

\* ------------------------------------------------------- job queue (4.6)
JobsOf(q, jobId) == {i \in 1..Len(q) : q[i].jobId = jobId}

NewJob(jobId, seq) == [jobId |-> jobId, seq |-> seq, state |-> "waiting"]

\* Whether enqueue adds a job: a duplicate jobId without force is a no-op.
Adds(q, jobId, force) == JobsOf(q, jobId) = {} \/ force

EnqueueKeepsOld(q, jobId, force, seq) ==
    IF Adds(q, jobId, force) THEN Append(q, NewJob(jobId, seq)) ELSE q

\* enqueue(queueName, jobName, payload, {jobId}): with force the job waiting
\* under that jobId is replaced; a job a worker has already taken keeps running.
Enqueue(q, jobId, force, seq) ==
    IF JobsOf(q, jobId) = {} THEN Append(q, NewJob(jobId, seq))
    ELSE IF ~force THEN q
    ELSE Append(SelectSeq(q, LAMBDA j : ~(j.jobId = jobId /\ j.state = "waiting")),
                NewJob(jobId, seq))

\* retryAssetProcessing(assetType, assetId, userId, force): the record, the queue
\* and the report it leaves, from the current state.
retryAssetProcessing(assetId, userId, force) ==
    IF assetId \in DOMAIN assetProcessingJobs
       /\ assetProcessingJobs[assetId].status = "processing"
       /\ ~force
    THEN [table |-> assetProcessingJobs, queue |-> queue, added |-> FALSE,
          result |-> "in_flight", note |-> "none"]
    ELSE LET names == IF assetId \in DOMAIN assetProcessingJobs
                      THEN assetProcessingJobs[assetId].stageNames
                      ELSE DocumentStages
         IN [table |-> With(assetProcessingJobs, assetId,
                            NewJobRecord(names, "processing")),
             queue |-> Enqueue(queue, assetId, force, nextJobSeq),
             added |-> Adds(queue, assetId, force),
             result |-> "queued",
             note |-> IF ~Adds(queue, assetId, force) THEN "coalesced"
                      ELSE IF \E i \in JobsOf(queue, assetId) : queue[i].state = "waiting"
                      THEN "replaced" ELSE "added"]

\* ------------------------------------------------------- tags (db-helpers)
TagRow(table, userId, name) == [id |-> Cardinality(table) + 1, userId |-> userId, name |-> name]

HasTag(table, userId, name) == \E r \in table : r.userId = userId /\ r.name = name

RECURSIVE InsertPlain(_, _, _)
InsertPlain(table, userId, names) ==
    IF names = {} THEN [table |-> table, failed |-> FALSE]
    ELSE LET n == CHOOSE x \in names : TRUE
         IN IF HasTag(table, userId, n) THEN [table |-> table, failed |-> TRUE]
            ELSE InsertPlain(table \cup {TagRow(table, userId, n)}, userId, names \ {n})

RECURSIVE InsertOrIgnore(_, _, _)
\* The insert-or-ignore of getOrCreateTags: a row for every name the user has no
\* row for; a name that has one is passed over, whoever inserted it.
InsertOrIgnore(table, userId, names) ==
    IF names = {} THEN [table |-> table, failed |-> FALSE]
    ELSE LET n == CHOOSE x \in names : TRUE
         IN InsertOrIgnore(
                IF HasTag(table, userId, n) THEN table
                ELSE table \cup {TagRow(table, userId, n)},
                userId, names \ {n})

\* The user's rows for the names.
SelectTags(table, userId, names) == {r \in table : r.userId = userId /\ r.name \in names}

\* getOrCreateTags(tagNames, userId) run in one piece: the table it leaves and the
\* rows it returns.
getOrCreateTags(table, tagNames, userId) ==
    LET t == InsertOrIgnore(table, userId, tagNames).table
    IN [table |-> t, rows |-> SelectTags(t, userId, tagNames)]

\* The rows addTagsToDocument inserts into the join table; a link that is there
\* already is left alone (onConflictDoNothing).
LinkRows(links, documentId, rows) == links \cup {<<documentId, r.id>> : r \in rows}

\* ------------------------------------------------------ document service
\* The storage-key columns of a document that hold processing artifacts.
ArtifactFields ==
    {"extractedMdStorageId", "extractedTxtStorageId", "pdfStorageId",
     "thumbnailStorageId", "screenshotStorageId"}

StorageKeys == {"k1", "k2"}

OriginalKey(documentId) == <<documentId, "original">>

OwnsAnyUser(userId, documentId) == documentId \in DOMAIN documents

\* where: and(eq(documents.id, id), eq(documents.userId, userId)) finds a row.
Owns(userId, documentId) ==
    documentId \in DOMAIN documents /\ documents[documentId].userId = userId

FailurePoints == {"none", "save", "insert", "tags", "details", "job", "add"}

BlobKeptAlways(saved, failed, cleanupFails) == saved

\* Whether the blob saved by createDocument is in storage when the call returns:
\* the catch block deletes it, unless that deletion throws (which is only logged).
BlobKept(saved, failed, cleanupFails) == saved /\ (~failed \/ cleanupFails)

JobAddedBeforeUpsert(upserted, queueHandle, failAt) ==
    queueHandle /\ failAt \in {"none", "job"}

\* Whether createDocument adds the job: queue.add is the last call, reached after
\* the upsert of the processing-job record, with a queue handle.
JobAdded(upserted, queueHandle, failAt) == upserted /\ queueHandle /\ failAt # "add"

\* createDocument(data, userId).  queueHandle: whether getQueue returns a handle;
\* failAt: the call that throws (none: no call throws); cleanupFails: whether the
\* objectStorage.delete of the catch block throws.  The note of the step records
\* the failure point, or what the call did about the queue: a missing queue handle
\* is logged and the call returns the document.
createDocument(userId, enabled, tagNames, queueHandle, failAt, cleanupFails) ==
    LET documentId == nextDocumentId
        saved == failAt # "save"
        inserted == failAt \notin {"save", "insert"}
        tagged == inserted /\ failAt # "tags" /\ tagNames # {}
        detailsRead == failAt \notin {"save", "insert", "tags", "details"}
        upserted == detailsRead /\ enabled /\ failAt # "job"
        added == JobAdded(upserted, queueHandle, failAt)
        failed == failAt # "none"
    IN /\ nextDocumentId <= MaxDocs
       /\ failAt = "tags" => tagNames # {}
       /\ failAt \in {"job", "add"} => enabled
       /\ failAt = "add" => queueHandle
       /\ cleanupFails => (failed /\ saved)
       /\ added => nextJobSeq <= MaxJobs
       /\ nextDocumentId' = nextDocumentId + 1
       /\ blobs' = IF BlobKept(saved, failed, cleanupFails)
                   THEN blobs \cup {OriginalKey(documentId)} ELSE blobs
       /\ documents' = IF inserted
                       THEN With(documents, documentId,
                                 [userId |-> userId,
                                  storageId |-> OriginalKey(documentId),
                                  title |-> "T0",
                                  keys |-> [f \in ArtifactFields |-> "null"]])
                       ELSE documents
       /\ tags' = IF tagged THEN getOrCreateTags(tags, tagNames, userId).table ELSE tags
       /\ documentsTags' =
              IF tagged
              THEN LinkRows(documentsTags, documentId,
                            getOrCreateTags(tags, tagNames, userId).rows)
              ELSE documentsTags
       /\ assetProcessingJobs' =
              IF upserted
              THEN createOrUpdateProcessingJob(assetProcessingJobs, documentId,
                                               DocumentStages)
              ELSE assetProcessingJobs
       /\ queue' = IF added THEN Enqueue(queue, documentId, FALSE, nextJobSeq) ELSE queue
       /\ nextJobSeq' = IF added THEN nextJobSeq + 1 ELSE nextJobSeq
       /\ latestJob' = IF added THEN [latestJob EXCEPT ![documentId] = nextJobSeq]
                       ELSE latestJob
       /\ last' = Op("createDocument", documentId, userId, FALSE,
                     IF failed THEN "failed" ELSE "created",
                     IF failed THEN (IF cleanupFails THEN "cleanup_failed" ELSE failAt)
                     ELSE IF added THEN "added"
                     ELSE IF enabled /\ ~queueHandle THEN "no_queue"
                     ELSE "none")
       /\ UNCHANGED <<workers, call, taggers,
                      channels, bots, nextChannelId>>

deleteDocumentKeepsJob(id, userId, deleteStorage, txFails, storageFails) ==
    /\ txFails => Owns(userId, id)
    /\ storageFails => (Owns(userId, id) /\ ~txFails /\ deleteStorage)
    /\ IF ~Owns(userId, id)
       THEN /\ last' = Op("deleteDocument", id, userId, FALSE, "success", "none")
            /\ UNCHANGED <<documents, documentsTags, blobs>>
       ELSE IF txFails
       THEN /\ last' = Op("deleteDocument", id, userId, FALSE, "failed", "none")
            /\ UNCHANGED <<documents, documentsTags, blobs>>
       ELSE /\ documentsTags' = {l \in documentsTags : l[1] # id}
            /\ documents' = Without(documents, id)
            /\ blobs' = IF deleteStorage /\ ~storageFails
                        THEN {b \in blobs : b[1] # id} ELSE blobs
            /\ last' = Op("deleteDocument", id, userId, FALSE, "success", "none")
    /\ UNCHANGED <<tags, assetProcessingJobs, queue, workers, nextDocumentId,
                   nextJobSeq, latestJob, call,
                   taggers,
                   channels, bots, nextChannelId>>

\* deleteDocument(id, userId, deleteStorage).  txFails: the transaction throws and
\* rolls back; storageFails: objectStorage.deleteAsset rejects (only logged).
deleteDocument(id, userId, deleteStorage, txFails, storageFails) ==
    /\ txFails => Owns(userId, id)
    /\ storageFails => (Owns(userId, id) /\ ~txFails /\ deleteStorage)
    /\ IF ~Owns(userId, id)
       THEN /\ last' = Op("deleteDocument", id, userId, FALSE, "success", "none")
            /\ UNCHANGED <<documents, documentsTags, assetProcessingJobs, blobs>>
       ELSE IF txFails
       THEN /\ last' = Op("deleteDocument", id, userId, FALSE, "failed", "none")
            /\ UNCHANGED <<documents, documentsTags, assetProcessingJobs, blobs>>
       ELSE /\ documentsTags' = {l \in documentsTags : l[1] # id}
            /\ assetProcessingJobs' = Without(assetProcessingJobs, id)
            /\ documents' = Without(documents, id)
            /\ blobs' = IF deleteStorage /\ ~storageFails
                        THEN {b \in blobs : b[1] # id} ELSE blobs
            /\ last' = Op("deleteDocument", id, userId, FALSE, "success", "none")
    /\ UNCHANGED <<tags, queue, workers, nextDocumentId, nextJobSeq, latestJob, call,
                   taggers,
                   channels, bots, nextChannelId>>

UpdateFailurePoints == {"none", "find", "update", "deleteTags", "addTags", "details"}

\* updateDocument(id, documentData, userId).  title: the title given, or undefined;
\* tagsGiven: whether documentData has tags, tagNames what they are; failAt: the
\* call that throws.  The statements run outside a transaction: what ran before
\* the failing one stays.
updateDocument(id, userId, title, tagsGiven, tagNames, failAt) ==
    LET found == Owns(userId, id)
        updated == /\ found /\ failAt \notin {"find", "update"}
                   /\ (title # "undefined" \/ tagsGiven)
        unlinked == found /\ tagsGiven /\ failAt \notin {"find", "update", "deleteTags"}
        added == unlinked /\ tagNames # {} /\ failAt # "addTags"
        got == getOrCreateTags(tags, tagNames, userId)
    IN /\ ~tagsGiven => tagNames = {}
       /\ failAt \notin {"none", "find"} => found
       /\ failAt = "update" => (title # "undefined" \/ tagsGiven)
       /\ failAt = "deleteTags" => tagsGiven
       /\ failAt = "addTags" => tagNames # {}
       /\ documents' = IF updated /\ title # "undefined"
                       THEN [documents EXCEPT ![id].title = title]
                       ELSE documents
       /\ tags' = IF added THEN got.table ELSE tags
       /\ documentsTags' =
              IF added THEN LinkRows({l \in documentsTags : l[1] # id}, id, got.rows)
              ELSE IF unlinked THEN {l \in documentsTags : l[1] # id}
              ELSE documentsTags
       /\ last' = Op("updateDocument", id, userId, FALSE,
                     IF failAt = "find" THEN "failed"
                     ELSE IF ~found THEN "not_found"
                     ELSE IF failAt # "none" THEN "failed"
                     ELSE "updated",
                     "none")
       /\ UNCHANGED <<blobs, assetProcessingJobs, queue, workers, nextDocumentId,
                      nextJobSeq, latestJob, call, taggers,
                      channels, bots, nextChannelId>>

\* What a call of updateDocumentArtifacts gives for the storage-key fields, each
\* undefined, empty or a key: one field alone, or all of them alike.
ArtifactInputs ==
    {a \in [ArtifactFields -> {"undefined", ""} \cup StorageKeys] :
        \/ \E f \in ArtifactFields : \A g \in ArtifactFields \ {f} : a[g] = "undefined"
        \/ \A f, g \in ArtifactFields : a[f] = a[g]}

ArtifactKeyUnchecked(old, given) ==
    IF given = "undefined" THEN old ELSE IF given = "" THEN "null" ELSE given

\* if (artifacts.x) updatePayload.x = artifacts.x: the column takes a value that
\* is given and not empty, and keeps its own otherwise.
ArtifactKey(old, given) == IF given \in {"undefined", ""} THEN old ELSE given

\* updateDocumentArtifacts(documentId, artifacts), one transaction.  txFails: a
\* statement of the transaction throws and it rolls back.
updateDocumentArtifacts(documentId, artifacts, title, tagsGiven, tagNames, txFails) ==
    LET exists == documentId \in DOMAIN documents
        missing == tagsGiven /\ ~exists
        done == exists /\ ~txFails
        row == documents[documentId]
        keys == [f \in ArtifactFields |-> ArtifactKey(row.keys[f], artifacts[f])]
        got == getOrCreateTags(tags, tagNames, row.userId)
        unlinked == {l \in documentsTags : l[1] # documentId}
    IN /\ ~tagsGiven => tagNames = {}
       /\ documents' = IF done
                       THEN [documents EXCEPT
                                ![documentId].keys = keys,
                                ![documentId].title =
                                    IF title \in {"undefined", ""} THEN @ ELSE title]
                       ELSE documents
       /\ tags' = IF done /\ tagsGiven /\ tagNames # {} THEN got.table ELSE tags
       /\ documentsTags' =
              IF done /\ tagsGiven
              THEN (IF tagNames # {} THEN LinkRows(unlinked, documentId, got.rows)
                    ELSE unlinked)
              ELSE documentsTags
       /\ last' = Op("updateDocumentArtifacts", documentId, "-", FALSE,
                     IF txFails \/ missing THEN "failed" ELSE "saved",
                     IF done /\ \E f \in ArtifactFields :
                                   row.keys[f] # "null" /\ keys[f] # row.keys[f]
                     THEN "overwrote" ELSE "none")
       /\ UNCHANGED <<blobs, assetProcessingJobs, queue, workers, nextDocumentId,
                      nextJobSeq, latestJob, call, taggers,
                      channels, bots, nextChannelId>>

\* The state a call of retryAssetProcessing made by reprocessDocument leaves.
ApplyRetry(documentId, userId, force, r) ==
    /\ r.added => nextJobSeq <= MaxJobs
    /\ assetProcessingJobs' = r.table
    /\ queue' = r.queue
    /\ nextJobSeq' = IF r.added THEN nextJobSeq + 1 ELSE nextJobSeq
    /\ latestJob' = IF r.added THEN [latestJob EXCEPT ![documentId] = nextJobSeq]
                    ELSE latestJob
    /\ last' = Op("reprocessDocument", documentId, userId, force, r.result, r.note)
    /\ UNCHANGED <<documents, blobs, tags, documentsTags, workers, nextDocumentId, call,
                   taggers,
                   channels, bots, nextChannelId>>

ReprocessNotFound(documentId, userId, force) ==
    /\ last' = Op("reprocessDocument", documentId, userId, force, "failed", "none")
    /\ UNCHANGED <<documents, blobs, tags, documentsTags, assetProcessingJobs, queue,
                   workers, nextDocumentId, nextJobSeq, latestJob, call,
                   taggers,
                   channels, bots, nextChannelId>>

reprocessDocumentAlwaysForce(documentId, userId, force) ==
    IF ~Owns(userId, documentId)
    THEN ReprocessNotFound(documentId, userId, force)
    ELSE ApplyRetry(documentId, userId, force,
                    retryAssetProcessing(documentId, userId, TRUE))

reprocessDocumentNeverForce(documentId, userId, force) ==
    IF ~Owns(userId, documentId)
    THEN ReprocessNotFound(documentId, userId, force)
    ELSE ApplyRetry(documentId, userId, force,
                    retryAssetProcessing(documentId, userId, FALSE))

\* reprocessDocument(documentId, userId, force): getDocumentById throws for a
\* document that is missing or owned by another user, and the catch block reports
\* failure; otherwise the result of retryAssetProcessing is returned.
reprocessDocument(documentId, userId, force) ==
    IF ~Owns(userId, documentId)
    THEN ReprocessNotFound(documentId, userId, force)
    ELSE ApplyRetry(documentId, userId, force,
                    retryAssetProcessing(documentId, userId, force))

\* getDocumentById(documentId, userId): the details of the user's document, or
\* the NOT_FOUND error of getDocumentWithDetails rethrown.  Nothing is written.
getDocumentById(documentId, userId) ==
    /\ last' = Op("getDocumentById", documentId, userId, FALSE,
                  IF Owns(userId, documentId) THEN "found" ELSE "not_found", "none")
    /\ UNCHANGED <<documents, blobs, tags, documentsTags, assetProcessingJobs, queue,
                   workers, nextDocumentId, nextJobSeq, latestJob, call, taggers,
                   channels, bots, nextChannelId>>

AssetTypes ==
    {"original", "thumbnail", "screenshot", "pdf", "content", "extracted-md",
     "extracted-txt"}

\* The column of the document that getDocumentAsset reads for an asset type.
AssetStorageId(row, assetType) ==
    CASE assetType = "original" -> row.storageId
      [] assetType = "thumbnail" -> row.keys["thumbnailStorageId"]
      [] assetType = "screenshot" -> row.keys["screenshotStorageId"]
      [] assetType = "pdf" -> row.keys["pdfStorageId"]
      [] assetType \in {"content", "extracted-md"} -> row.keys["extractedMdStorageId"]
      [] OTHER -> row.keys["extractedTxtStorageId"]

\* getDocumentAsset(documentId, userId, assetType).  storageError: what
\* objectStorage.getStream meets (none: it returns the stream); the original
\* file is missing exactly when its blob is not in storage.
getDocumentAsset(documentId, userId, assetType, storageError) ==
    LET found == Owns(userId, documentId)
        storageId == IF found THEN AssetStorageId(documents[documentId], assetType)
                     ELSE "null"
    IN /\ storageError # "none" => (found /\ storageId # "null")
       /\ (found /\ assetType = "original" /\ storageError # "other")
              => (storageError = "ENOENT" <=> storageId \notin blobs)
       /\ last' = Op("getDocumentAsset", documentId, userId, FALSE,
                     IF ~found THEN "not_found"
                     ELSE IF storageId = "null" THEN "asset_not_found"
                     ELSE IF storageError = "ENOENT" THEN "file_not_found"
                     ELSE IF storageError = "other" THEN "failed"
                     ELSE "stream",
                     "none")
       /\ UNCHANGED <<documents, blobs, tags, documentsTags, assetProcessingJobs,
                      queue, workers, nextDocumentId, nextJobSeq, latestJob, call,
                      taggers,
                      channels, bots, nextChannelId>>

\* A caller of the processing-status store (re)declaring the stage set of an asset.
DeclareStages(assetId, stageNames) ==
    /\ assetId \in DOMAIN documents
    /\ assetProcessingJobs' =
           createOrUpdateProcessingJob(assetProcessingJobs, assetId, stageNames)
    /\ last' = Op("createOrUpdateProcessingJob", assetId, "-", FALSE, "upserted", "none")
    /\ UNCHANGED <<documents, blobs, tags, documentsTags, queue, workers,
                   nextDocumentId, nextJobSeq, latestJob, call,
                   taggers,
                   channels, bots, nextChannelId>>

\* ---------------------------------------------------------------- worker
FirstWaiting(q) ==
    LET w == {i \in 1..Len(q) : q[i].state = "waiting"}
    IN CHOOSE i \in w : \A k \in w : i <= k

\* Whether the job a worker holds is the newest one added for its asset.
Standing(w) == IF workers[w].seq < latestJob[workers[w].jobId] THEN "stale" ELSE "current"

\* A worker takes the oldest waiting job and reads the stage set declared for it.
\* Workers are interchangeable: of the idle ones the lowest-numbered takes the job.
Dequeue(w) ==
    /\ workers[w].pc = "idle"
    /\ \A v \in WorkerIds : v < w => workers[v].pc # "idle"
    /\ \E i \in 1..Len(queue) : queue[i].state = "waiting"
    /\ LET i == FirstWaiting(queue)
           job == queue[i]
           names == IF job.jobId \in DOMAIN assetProcessingJobs
                    THEN assetProcessingJobs[job.jobId].stageNames ELSE <<>>
       IN /\ queue' = [queue EXCEPT ![i].state = "active"]
          /\ workers' = [workers EXCEPT ![w] =
                [seq |-> job.seq, jobId |-> job.jobId, stageNames |-> names,
                 idx |-> IF names = <<>> THEN 0 ELSE 1,
                 pc |-> IF names = <<>> THEN "done" ELSE "begin"]]
          /\ last' = Op("dequeue", 0, "-", FALSE, "none", "none")
    /\ UNCHANGED <<documents, blobs, tags, documentsTags, assetProcessingJobs,
                   nextDocumentId, nextJobSeq, latestJob, call,
                   taggers,
                   channels, bots, nextChannelId>>

\* The worker marks its current stage processing.
WorkerBegin(w) ==
    /\ workers[w].pc = "begin"
    /\ assetProcessingJobs' =
           advanceStage(assetProcessingJobs, workers[w].jobId,
                        workers[w].stageNames[workers[w].idx], "processing", "none",
                        workers[w].seq)
    /\ workers' = [workers EXCEPT ![w].pc = "run"]
    /\ last' = Op("advanceStage", workers[w].jobId, "-", FALSE, "processing", Standing(w))
    /\ UNCHANGED <<documents, blobs, tags, documentsTags, queue, nextDocumentId,
                   nextJobSeq, latestJob, call,
                   taggers,
                   channels, bots, nextChannelId>>

\* The worker's current stage succeeds.
WorkerComplete(w) ==
    /\ workers[w].pc = "run"
    /\ assetProcessingJobs' =
           advanceStage(assetProcessingJobs, workers[w].jobId,
                        workers[w].stageNames[workers[w].idx], "completed", "none",
                        workers[w].seq)
    /\ workers' = IF workers[w].idx < Len(workers[w].stageNames)
                  THEN [workers EXCEPT ![w].idx = @ + 1, ![w].pc = "begin"]
                  ELSE [workers EXCEPT ![w].pc = "done"]
    /\ last' = Op("advanceStage", workers[w].jobId, "-", FALSE, "completed", Standing(w))
    /\ UNCHANGED <<documents, blobs, tags, documentsTags, queue, nextDocumentId,
                   nextJobSeq, latestJob, call,
                   taggers,
                   channels, bots, nextChannelId>>

\* The worker's current stage fails, or an uncaught error is captured: the failed
\* transition is written before the job is acknowledged.
WorkerFail(w) ==
    /\ workers[w].pc \in {"begin", "run"}
    /\ assetProcessingJobs' =
           advanceStage(assetProcessingJobs, workers[w].jobId,
                        workers[w].stageNames[workers[w].idx], "failed", "error",
                        workers[w].seq)
    /\ workers' = [workers EXCEPT ![w].pc = "done"]
    /\ last' = Op("advanceStage", workers[w].jobId, "-", FALSE, "failed", Standing(w))
    /\ UNCHANGED <<documents, blobs, tags, documentsTags, queue, nextDocumentId,
                   nextJobSeq, latestJob, call,
                   taggers,
                   channels, bots, nextChannelId>>

\* The job is acknowledged as done and leaves the queue.
WorkerAck(w) ==
    /\ workers[w].pc = "done"
    /\ queue' = SelectSeq(queue, LAMBDA j : j.seq # workers[w].seq)
    /\ workers' = [workers EXCEPT ![w] = IdleWorker]
    /\ last' = Op("ack", 0, "-", FALSE, "none", "none")
    /\ UNCHANGED <<documents, blobs, tags, documentsTags, assetProcessingJobs,
                   nextDocumentId, nextJobSeq, latestJob, call,
                   taggers,
                   channels, bots, nextChannelId>>

\* ------------------------------------- addTagsToDocument, step by step
\* Documents that workers tag at the same time, and who owns them.
RaceDocs == {1, 2, 3}

RaceOwner(d) == IF d = 3 THEN "u2" ELSE "u1"

\* addTagsToDocument(documentId, tagNames, userId) is called; with no tag name it
\* returns at once.
addTagsStart(c, documentId, userId, tagNames) ==
    /\ taggers[c].pc = "idle"
    /\ Owns(userId, documentId)
    /\ tagNames # {}
    /\ taggers' = [taggers EXCEPT ![c] =
           [pc |-> "insert", doc |-> documentId, user |-> userId, names |-> tagNames,
            rows |-> {}]]
    /\ last' = Op("addTagsToDocument", documentId, userId, FALSE, "called", "none")
    /\ UNCHANGED <<documents, blobs, tags, documentsTags, assetProcessingJobs, queue,
                   workers, nextDocumentId, nextJobSeq, latestJob, call,
                   channels, bots, nextChannelId>>

\* getOrCreateTags inserts the names; an error of the insert is caught by
\* addTagsToDocument, which throws.
addTagsInsert(c) ==
    /\ taggers[c].pc = "insert"
    /\ LET r == InsertOrIgnore(tags, taggers[c].user, taggers[c].names)
       IN /\ tags' = r.table
          /\ taggers' = [taggers EXCEPT ![c].pc = IF r.failed THEN "failed" ELSE "select"]
          /\ last' = Op("addTagsToDocument", taggers[c].doc, taggers[c].user, FALSE,
                        IF r.failed THEN "failed" ELSE "inserted", "none")
    /\ UNCHANGED <<documents, blobs, documentsTags, assetProcessingJobs, queue,
                   workers, nextDocumentId, nextJobSeq, latestJob, call,
                   channels, bots, nextChannelId>>

\* getOrCreateTags reads the rows for the names and returns them.
addTagsSelect(c) ==
    /\ taggers[c].pc = "select"
    /\ taggers' = [taggers EXCEPT
                      ![c].pc = "link",
                      ![c].rows = SelectTags(tags, taggers[c].user, taggers[c].names)]
    /\ last' = Op("addTagsToDocument", taggers[c].doc, taggers[c].user, FALSE,
                  "selected", "none")
    /\ UNCHANGED <<documents, blobs, tags, documentsTags, assetProcessingJobs, queue,
                   workers, nextDocumentId, nextJobSeq, latestJob, call,
                   channels, bots, nextChannelId>>

\* The links of the document to the rows are inserted, and the call returns.
addTagsLink(c) ==
    /\ taggers[c].pc = "link"
    /\ documentsTags' = LinkRows(documentsTags, taggers[c].doc, taggers[c].rows)
    /\ taggers' = [taggers EXCEPT ![c].pc = "done"]
    /\ last' = Op("addTagsToDocument", taggers[c].doc, taggers[c].user, FALSE,
                  "linked", "none")
    /\ UNCHANGED <<documents, blobs, tags, assetProcessingJobs, queue, workers,
                   nextDocumentId, nextJobSeq, latestJob, call,
                   channels, bots, nextChannelId>>

\* ------------------------------------------- bookmark content extraction
\* An HTML page: its body elements in document order, its <title>, and which icon
\* link its head declares.  An element is a paragraph, a script, a navigation
\* block, or a div holding paragraphs and scripts.
Leaf(tag) == [tag |-> tag, kids |-> <<>>]

Elements ==
    {Leaf(t) : t \in {"p", "script", "nav"}}
        \cup {[tag |-> "div", kids |-> k] : k \in {<<"script">>, <<"p">>, <<"p", "script">>}}

SeqsUpTo(S, n) == UNION {[1..k -> S] : k \in 0..n}

Htmls ==
    [elems : SeqsUpTo(Elements, MaxNodes),
     title : {"", "T"},
     iconLink : {"none", "icon", "shortcut icon"}]

ContentTypes ==
    {"", "image/svg+xml", "image/png", "image/x-icon", "image/vnd.microsoft.icon",
     "image/jpeg", "image/jpg", "image/gif", "text/html"}

\* What fetching the favicon meets: new URL throwing, the request failing, or a
\* response with its status, body, content type; urlExt is the extension of the
\* favicon URL's path; saveFails: objectStorage.saveAsset of the favicon throws.
FaviconCases ==
    [fetch : {"bad_url", "network_error"}, status : {0}, body : {"empty"},
     urlExt : {"none"}, contentType : {""}, saveFails : {FALSE}]
        \cup [fetch : {"response"}, status : {404}, body : {"empty"},
              urlExt : {"none"}, contentType : {""}, saveFails : {FALSE}]
        \cup [fetch : {"response"}, status : {200}, body : {"empty"},
              urlExt : {"none"}, contentType : {""}, saveFails : {FALSE}]
        \cup [fetch : {"response"}, status : {200, 204}, body : {"bytes"},
              urlExt : {"none", ".png"}, contentType : ContentTypes,
              saveFails : BOOLEAN]

\* The save of the content files that throws (none: no save throws).
ContentFailurePoints == {"none", "raw", "txt"}

HasScript(elems) ==
    \E i \in 1..Len(elems) : elems[i].tag = "script" \/ "script" \in Range(elems[i].kids)

KeepScripts(elems) == elems

\* document.querySelectorAll("script") and script.remove() on each: script
\* elements are removed at every depth.
RemoveScripts(elems) ==
    LET top == SelectSeq(elems, LAMBDA e : e.tag # "script")
    IN [i \in 1..Len(top) |->
           [top[i] EXCEPT !.kids = SelectSeq(@, LAMBDA t : t # "script")]]

\* new Readability(document).parse(): the elements that carry paragraph text, each
\* with its whole subtree, and the title; null when no element carries text.
Readability(elems, title) ==
    LET content == SelectSeq(elems, LAMBDA e : e.tag = "p" \/ "p" \in Range(e.kids))
    IN IF content = <<>> THEN [found |-> FALSE, content |-> <<>>, title |-> ""]
       ELSE [found |-> TRUE, content |-> content, title |-> title]

RECURSIVE Leaves(_)
\* The leaves of a sequence of elements in document order.
Leaves(elems) ==
    IF elems = <<>> THEN <<>>
    ELSE (IF Head(elems).tag = "div" THEN Head(elems).kids ELSE <<Head(elems).tag>>)
             \o Leaves(Tail(elems))

\* turndownService.turndown(html): one markdown block per leaf, holding its text.
turndown(elems) ==
    LET l == Leaves(elems) IN [i \in 1..Len(l) |-> [block |-> "paragraph", of |-> l[i]]]

\* convertHtmlToText(html): the text of the leaves, one line each.
convertHtmlToText(elems) == Leaves(elems)

getExtensionFromContentType(contentType) ==
    CASE contentType = "image/svg+xml" -> ".svg"
      [] contentType = "image/png" -> ".png"
      [] contentType \in {"image/x-icon", "image/vnd.microsoft.icon"} -> ".ico"
      [] contentType \in {"image/jpeg", "image/jpg"} -> ".jpg"
      [] contentType = "image/gif" -> ".gif"
      [] OTHER -> ".ico"

FaviconName(ext) ==
    CASE ext = ".svg" -> "favicon.svg"
      [] ext = ".png" -> "favicon.png"
      [] ext = ".jpg" -> "favicon.jpg"
      [] ext = ".gif" -> "favicon.gif"
      [] OTHER -> "favicon.ico"

generateFaviconFileNameByType(urlExt, contentType) ==
    FaviconName(getExtensionFromContentType(contentType))

generateFaviconFileName(urlExt, contentType) ==
    IF urlExt # "none" THEN FaviconName(urlExt)
    ELSE FaviconName(getExtensionFromContentType(contentType))

\* Whether the favicon step meets an error: the URL or the request fails, the
\* status is refused (the declared link accepts any 2xx, the /favicon.ico fallback
\* only 200), or the save throws.
FaviconFails(html, fav) ==
    \/ fav.fetch # "response"
    \/ IF html.iconLink = "none" THEN fav.status # 200 ELSE fav.status \notin {200, 204}
    \/ fav.body = "bytes" /\ fav.saveFails

FaviconFetchingThrows(html, fav) ==
    IF FaviconFails(html, fav) THEN [thrown |-> TRUE, fileName |-> "null"]
    ELSE IF fav.body = "empty" THEN [thrown |-> FALSE, fileName |-> "null"]
    ELSE [thrown |-> FALSE,
          fileName |-> IF html.iconLink = "none" THEN "favicon.ico"
                       ELSE generateFaviconFileName(
                                fav.urlExt,
                                IF fav.contentType = "" THEN "image/x-icon"
                                ELSE fav.contentType)]

\* The favicon step of extractContentFromHtml: the name the favicon is saved
\* under, null when none is saved; every error of the step is caught and logged.
FaviconFetching(html, fav) ==
    IF FaviconFails(html, fav) \/ fav.body = "empty"
    THEN [thrown |-> FALSE, fileName |-> "null"]
    ELSE [thrown |-> FALSE,
          fileName |-> IF html.iconLink = "none" THEN "favicon.ico"
                       ELSE generateFaviconFileName(
                                fav.urlExt,
                                IF fav.contentType = "" THEN "image/x-icon"
                                ELSE fav.contentType)]

ContentFiles == <<"content-raw.html", "content-readable.html", "extracted.md",
                  "extracted.txt">>

\* How many of the content files are saved before the save that throws.
SavedBefore(contentFailAt) ==
    CASE contentFailAt = "raw" -> 0
      [] contentFailAt = "txt" -> 3
      [] OTHER -> 4

\* extractContentFromHtml(rawHtml, url, userId, bookmarkId): the files it leaves in
\* the bookmark's storage and what it returns or throws.  A storage id is the file
\* name under the bookmark's prefix.
extractContentFromHtml(html, fav, contentFailAt) ==
    LET document == RemoveScripts(html.elems)
        article == Readability(document, html.title)
        readableHtml == IF article.found THEN article.content ELSE <<>>
        favicon == FaviconFetching(html, fav)
        markdownContent == turndown(readableHtml)
        plainTextContent == convertHtmlToText(readableHtml)
        saved == IF favicon.thrown THEN 0 ELSE SavedBefore(contentFailAt)
        thrown == favicon.thrown \/ contentFailAt # "none"
        names == {ContentFiles[i] : i \in 1..saved}
                     \cup (IF favicon.fileName # "null" THEN {favicon.fileName} ELSE {})
    IN /\ call.fn = "none"
       /\ (html.iconLink = "none") => (fav.fetch # "bad_url" /\ fav.urlExt = "none")
       /\ call' =
              [fn |-> "extractContentFromHtml",
               html |-> html, fav |-> fav, contentFailAt |-> contentFailAt,
               thrown |-> thrown,
               stored |-> [n \in names |->
                              CASE n = "content-raw.html" -> html.elems
                                [] n = "content-readable.html" -> readableHtml
                                [] n = "extracted.md" -> markdownContent
                                [] n = "extracted.txt" -> plainTextContent
                                [] OTHER -> <<>>],
               result |->
                   IF thrown THEN [title |-> ""]
                   ELSE [title |-> IF article.title # "" THEN article.title
                                   ELSE html.title,
                         extractedMdStorageId |-> "extracted.md",
                         extractedTxtStorageId |-> "extracted.txt",
                         rawHtmlStorageId |-> "content-raw.html",
                         readableHtmlStorageId |-> "content-readable.html",
                         faviconStorageId |-> favicon.fileName,
                         extractedText |-> plainTextContent]]
       /\ last' = Op("extractContentFromHtml", 0, "u1", FALSE,
                     IF thrown THEN "failed" ELSE "returned", "none")
       /\ UNCHANGED <<documents, blobs, tags, documentsTags, assetProcessingJobs, queue,
                      workers, nextDocumentId, nextJobSeq, latestJob,
                   taggers,
                      channels, bots, nextChannelId>>

\* ------------------------------------------------------- bookmark tagging
\* The JSON values an AI response can hold, by what the code distinguishes: an
\* array, an object with or without a tags array, another value, or no JSON at all
\* (kind garbage, or empty for no text).  An item is given by its typeof.
ItemTypes == {"string", "number"}

Payloads ==
    [kind : {"array", "object_tags"}, items : SeqsUpTo(ItemTypes, MaxItems)]
        \cup [kind : {"garbage", "empty", "number", "null", "object_no_tags",
                      "object_tags_not_array"},
              items : {<<>>}]

\* callAI: it throws (timeout, provider error), or answers with a text: a payload
\* bare, or inside a ```json fence or a plain ``` fence, with or without prose
\* around it.
AiOutcomes ==
    [outcome : {"timeout", "provider_error"}, fence : {"none"}, prose : {FALSE},
     payload : {[kind |-> "empty", items |-> <<>>]}]
        \cup [outcome : {"response"}, fence : {"none", "json", "plain"},
              prose : BOOLEAN, payload : Payloads]

Garbage == [kind |-> "garbage", items |-> <<>>]

\* The text given to JSON.parse, jsonMatch?.[1] || aiResponse, as the value it
\* holds: the inside of a ```json fence when it is not empty, else the whole
\* response, which is JSON only when it is a bare payload.
ParsedText(ai) ==
    IF ai.fence = "json" /\ ai.payload.kind # "empty" THEN ai.payload
    ELSE IF ai.fence = "none" /\ ~ai.prose THEN ai.payload
    ELSE Garbage

\* Whether callAI or JSON.parse throws.
TaggingThrows(ai) ==
    ai.outcome # "response" \/ ParsedText(ai).kind \in {"garbage", "empty"}

TagsOfParsed(parsed) ==
    IF parsed.kind \in {"array", "object_tags"}
    THEN SelectSeq(parsed.items, LAMBDA t : t = "string")
    ELSE <<>>

generateBookmarkTagsNoCatch(ai) ==
    IF TaggingThrows(ai) THEN [thrown |-> TRUE, tags |-> <<>>]
    ELSE [thrown |-> FALSE, tags |-> TagsOfParsed(ParsedText(ai))]

\* generateBookmarkTags(contentText, title, isTwitter): what it returns for an
\* outcome of callAI; the catch block logs every error and returns [].
generateBookmarkTags(ai) ==
    IF TaggingThrows(ai) THEN [thrown |-> FALSE, tags |-> <<>>]
    ELSE [thrown |-> FALSE, tags |-> TagsOfParsed(ParsedText(ai))]

CallGenerateBookmarkTags(ai) ==
    /\ call.fn = "none"
    /\ call' = [fn |-> "generateBookmarkTags", ai |-> ai,
                thrown |-> generateBookmarkTags(ai).thrown,
                tags |-> generateBookmarkTags(ai).tags]
    /\ last' = Op("generateBookmarkTags", 0, "-", FALSE,
                  IF generateBookmarkTags(ai).thrown THEN "failed" ELSE "returned",
                  "none")
    /\ UNCHANGED <<documents, blobs, tags, documentsTags, assetProcessingJobs, queue,
                   workers, nextDocumentId, nextJobSeq, latestJob,
                   taggers,
                   channels, bots, nextChannelId>>

\* ----------------------------------------- document service: error policy
ServiceOps ==
    {"createDocument", "updateDocument", "getDocumentById", "getDocumentAsset",
     "deleteDocument", "updateDocumentArtifacts", "findDocuments", "countDocuments"}

NotFound(message) == [code |-> "NOT_FOUND", message |-> message]

\* An error of the database or of object storage, with the driver's code and a
\* message that carries internal detail.
Internal(code) == [code |-> code, message |-> "internal"]

\* new Error(message): no code, a fixed caller-safe message.
Generic(message) == [code |-> "none", message |-> message]

\* The errors an operation meets: the document is missing, or the database or the
\* storage fails.
InnerErrors ==
    {NotFound("Document not found"), Internal("none"), Internal("ENOENT"),
     Internal("23505")}

\* The error the caller of an exported operation gets when the operation meets
\* error; site: inside the operation's try block or before it.
Rethrown(op, site, error) ==
    CASE op = "createDocument" -> Generic("Failed to create document")
      [] op = "updateDocument" ->
             IF error.code = "NOT_FOUND" THEN error
             ELSE Generic("Failed to update document metadata")
      [] op = "getDocumentById" ->
             IF error.code = "NOT_FOUND" THEN error
             ELSE Generic("Failed to fetch document")
      [] op = "deleteDocument" -> Generic("Failed to delete document")
      [] op = "findDocuments" -> Generic("Failed to search documents")
      [] op = "countDocuments" -> Generic("Failed to count documents")
      [] op = "updateDocumentArtifacts" -> error
      [] op = "getDocumentAsset" ->
             IF site = "try" /\ error.code = "ENOENT"
             THEN NotFound("Asset file not found in storage.")
             ELSE error

\* An exported operation meets an error.  Only getDocumentAsset works outside a
\* try block: its query of the document and its not-found checks.
ServiceError(op, site, error) ==
    /\ call.fn = "none"
    /\ site = "outside" => op = "getDocumentAsset"
    /\ call' = [fn |-> "service", op |-> op, site |-> site, error |-> error,
                thrown |-> Rethrown(op, site, error)]
    /\ last' = Op(op, 0, "u1", FALSE, "failed", "none")
    /\ UNCHANGED <<documents, blobs, tags, documentsTags, assetProcessingJobs, queue,
                   workers, nextDocumentId, nextJobSeq, latestJob,
                   taggers,
                   channels, bots, nextChannelId>>

\* ------------------------------------------------------- PDF generation
ImageIds == 1..MaxImages

\* The state of generateOptimizedPdf(page, bookmarkId) when it is called on a page
\* whose images are complete or still loading.
PdfCalls ==
    {[fn |-> "generateOptimizedPdf", pc |-> "images", images |-> im, steps |-> <<>>] :
        im \in [ImageIds -> {"complete", "loading"}]}

PdfFrame ==
    UNCHANGED <<documents, blobs, tags, documentsTags, assetProcessingJobs, queue,
                workers, nextDocumentId, nextJobSeq, latestJob, taggers,
                channels, bots, nextChannelId>>

PdfMoves(pc, step) ==
    /\ call' = [call EXCEPT !.pc = pc, !.steps = Append(@, step)]
    /\ last' = Op("generateOptimizedPdf", 0, "-", FALSE, pc, "none")
    /\ PdfFrame

\* The browser fires load or error on an image that is loading.  Nothing obliges
\* it to: a request can stay open for ever.
ImageFires(i, event) ==
    /\ call.fn = "generateOptimizedPdf"
    /\ call.images[i] = "loading"
    /\ call' = [call EXCEPT !.images[i] = event]
    /\ last' = Op("image", 0, "-", FALSE, event, "none")
    /\ PdfFrame

\* page.evaluate resolves: Promise.all over the images that were not complete
\* when it ran, each promise resolved by onload or onerror of its image.
PdfImagesLoaded ==
    /\ call.fn = "generateOptimizedPdf" /\ call.pc = "images"
    /\ \A i \in ImageIds : call.images[i] # "loading"
    /\ PdfMoves("settle", "images")

\* page.waitForTimeout(3000) resolves.
PdfSettled ==
    /\ call.fn = "generateOptimizedPdf" /\ call.pc = "settle"
    /\ PdfMoves("emulate", "settle")

\* page.emulateMedia({media: "screen"}) resolves.
PdfMediaEmulated ==
    /\ call.fn = "generateOptimizedPdf" /\ call.pc = "emulate"
    /\ PdfMoves("render", "screen")

\* page.pdf({format: "A4", ...}) resolves and the buffer is returned.
PdfRendered ==
    /\ call.fn = "generateOptimizedPdf" /\ call.pc = "render"
    /\ PdfMoves("returned", "A4")

\* A call on the page rejects (the page or the browser is closed) and the
\* function throws.
PdfThrows ==
    /\ call.fn = "generateOptimizedPdf"
    /\ call.pc \in {"images", "settle", "emulate", "render"}
    /\ call' = [call EXCEPT !.pc = "thrown"]
    /\ last' = Op("generateOptimizedPdf", 0, "-", FALSE, "thrown", "none")
    /\ PdfFrame

PdfStep == PdfImagesLoaded \/ PdfSettled \/ PdfMediaEmulated \/ PdfRendered

\* ----------------------------------------------------------------- channels
ChannelIds == 1..MaxChannels

Platforms == {"telegram", "slack"}

\* The config of a request: one of two valid configs, or one that
\* TelegramConfigSchema rejects; undefined for an update that gives none.
Configs == {"c1", "c2"}

\* and(eq(channels.id, channelId), eq(channels.userId, userId)) finds a row.
OwnsChannel(userId, channelId) ==
    channelId \in DOMAIN channels /\ channels[channelId].userId = userId

\* validateAndEncryptConfig(platform, config): null for a telegram config the
\* schema rejects; the config of another platform is taken as it is.
validateAndEncryptConfig(platform, config) ==
    IF platform = "telegram" /\ config = "invalid" THEN "null" ELSE config

\* stopTelegramBot(channelId): no bot runs for the channel afterwards.
stopTelegramBot(running, channelId) == running \ {channelId}

\* startTelegramBot(channelId): a bot runs for the channel when it reports that
\* it started.
startTelegramBot(running, channelId, started) ==
    IF started THEN running \cup {channelId} ELSE running

ChannelFrame ==
    UNCHANGED <<documents, blobs, tags, documentsTags, assetProcessingJobs, queue,
                workers, nextDocumentId, nextJobSeq, latestJob, call, taggers>>

\* createChannel(userId, channelData).  failAt: the call that rejects (none: no
\* call rejects); started: what startTelegramBot reports.
createChannel(userId, platform, config, failAt, started) ==
    LET channelId == nextChannelId
        valid == validateAndEncryptConfig(platform, config) # "null"
        inserted == valid /\ failAt # "insert"
        reached == inserted /\ failAt = "none"
    IN /\ nextChannelId <= MaxChannels
       /\ failAt \in {"none", "insert", "history"}
       /\ failAt # "none" => valid
       /\ started => (reached /\ platform = "telegram")
       /\ channels' = IF inserted
                      THEN With(channels, channelId,
                                [userId |-> userId, platform |-> platform,
                                 config |-> config, isActive |-> TRUE])
                      ELSE channels
       /\ nextChannelId' = IF inserted THEN nextChannelId + 1 ELSE nextChannelId
       /\ bots' = IF reached /\ platform = "telegram"
                  THEN startTelegramBot(bots, channelId, started)
                  ELSE bots
       /\ last' = Op("createChannel", channelId, userId, FALSE,
                     IF ~valid THEN "invalid_config"
                     ELSE IF failAt # "none" THEN "failed" ELSE "created",
                     failAt)
       /\ ChannelFrame

\* The row an update leaves: isActive and config take the values given.
UpdatedChannel(row, isActive, config) ==
    [row EXCEPT !.isActive = IF isActive = "undefined" THEN @ ELSE isActive = "true",
                !.config = IF config = "undefined" THEN @ ELSE config]

\* if (existingChannel.platform === "telegram") if (updateData.config !==
\* undefined || updateData.isActive !== undefined): the bot is stopped.
StopsBot(platform, isActive, config) ==
    platform = "telegram" /\ (config # "undefined" \/ isActive # "undefined")

\* updateChannel(channelId, userId, updateData).  isActive, config: what
\* updateData gives, or undefined (an update of the name or the capability alone
\* gives neither).  The row is updated and the history written before the bot is
\* stopped; a bot is started again only for a row that is active.
updateChannel(channelId, userId, isActive, config, failAt, started) ==
    LET existing == OwnsChannel(userId, channelId) /\ failAt # "find"
        valid == existing
                 /\ validateAndEncryptConfig(channels[channelId].platform, config) # "null"
        updated == valid /\ failAt # "update"
        updatedChannel == UpdatedChannel(channels[channelId], isActive, config)
        reached == updated /\ failAt = "none"
        restarts == reached /\ StopsBot(channels[channelId].platform, isActive, config)
    IN /\ failAt \in {"none", "find", "update", "history"}
       /\ failAt \in {"update", "history"} => valid
       /\ started => (restarts /\ updatedChannel.isActive)
       /\ channels' = IF updated THEN [channels EXCEPT ![channelId] = updatedChannel]
                      ELSE channels
       /\ bots' = IF ~restarts THEN bots
                  ELSE IF updatedChannel.isActive
                  THEN startTelegramBot(stopTelegramBot(bots, channelId), channelId,
                                        started)
                  ELSE stopTelegramBot(bots, channelId)
       /\ last' = Op("updateChannel", channelId, userId, FALSE,
                     IF failAt = "find" THEN "failed"
                     ELSE IF ~existing THEN "not_found"
                     ELSE IF ~valid THEN "invalid_config"
                     ELSE IF failAt # "none" THEN "failed" ELSE "updated",
                     failAt)
       /\ UNCHANGED nextChannelId
       /\ ChannelFrame

\* deleteChannel(channelId, userId): the bot of a telegram channel is stopped
\* before the row is deleted.
deleteChannel(channelId, userId, failAt) ==
    LET existing == OwnsChannel(userId, channelId) /\ failAt # "find"
        deleted == existing /\ failAt # "delete"
    IN /\ failAt \in {"none", "find", "delete", "history"}
       /\ failAt \in {"delete", "history"} => existing
       /\ bots' = IF existing /\ channels[channelId].platform = "telegram"
                  THEN stopTelegramBot(bots, channelId)
                  ELSE bots
       /\ channels' = IF deleted THEN Without(channels, channelId) ELSE channels
       /\ last' = Op("deleteChannel", channelId, userId, FALSE,
                     IF failAt = "find" THEN "failed"
                     ELSE IF ~existing THEN "not_found"
                     ELSE IF failAt # "none" THEN "failed" ELSE "deleted",
                     failAt)
       /\ UNCHANGED nextChannelId
       /\ ChannelFrame

\* --------------------------------------------------------- specification
Init ==
    /\ documents = <<>>
    /\ blobs = {}
    /\ tags = {}
    /\ documentsTags = {}
    /\ assetProcessingJobs = <<>>
    /\ queue = <<>>
    /\ workers = [w \in WorkerIds |-> IdleWorker]
    /\ nextDocumentId = 1
    /\ nextJobSeq = 1
    /\ latestJob = [d \in DocIds |-> 0]
    /\ last = Op("init", 0, "-", FALSE, "none", "none")
    /\ call = NoCall
    /\ taggers = [c \in TaggerIds |-> IdleTagger]
    /\ channels = <<>>
    /\ bots = {}
    /\ nextChannelId = 1

WorkerStep ==
    \/ \E w \in WorkerIds : Dequeue(w)
    \/ \E w \in WorkerIds : WorkerBegin(w)
    \/ \E w \in WorkerIds : WorkerComplete(w)
    \/ \E w \in WorkerIds : WorkerFail(w)
    \/ \E w \in WorkerIds : WorkerAck(w)

\* The pipeline of one user's documents: creation with and without a queue handle
\* and with the failures that leave a record behind, deletion, retries, workers.
Next ==
    \/ \E en \in BOOLEAN, qh \in BOOLEAN, f \in {"none", "job", "add"} :
          createDocument("u1", en, {}, qh, f, FALSE)
    \/ \E d \in DocIds : deleteDocument(d, "u1", TRUE, FALSE, FALSE)
    \/ \E d \in DocIds, f \in BOOLEAN : reprocessDocument(d, "u1", f)
    \/ WorkerStep

Spec == Init /\ [][Next]_vars

\* The processing-status store under callers that declare richer stage sets.
NextStages ==
    \/ createDocument("u1", TRUE, {}, TRUE, "none", FALSE)
    \/ \E d \in DocIds, f \in BOOLEAN : reprocessDocument(d, "u1", f)
    \/ \E d \in DocIds, sn \in StageNameLists : DeclareStages(d, sn)
    \/ WorkerStep

SpecStages == Init /\ [][NextStages]_vars

\* The document store: every user, tags, and every failure of creation and
\* deletion; jobs are added to the queue and not taken.
NextStore ==
    \/ \E u \in Users, en \in BOOLEAN, tn \in SUBSET TagNames, qh \in BOOLEAN,
          f \in FailurePoints, cf \in BOOLEAN : createDocument(u, en, tn, qh, f, cf)
    \/ \E d \in DocIds, u \in Users, ds \in BOOLEAN, tf \in BOOLEAN, sf \in BOOLEAN :
          deleteDocument(d, u, ds, tf, sf)
    \/ \E d \in DocIds, u \in Users, f \in BOOLEAN : reprocessDocument(d, u, f)

SpecStore == Init /\ [][NextStore]_vars

\* The utilities of the bookmark worker, each called once on inputs of every kind.
NextCalls ==
    \/ /\ call.fn = "none"
       /\ \E html \in Htmls, fav \in FaviconCases, cf \in ContentFailurePoints :
              extractContentFromHtml(html, fav, cf)
    \/ /\ call.fn = "none"
       /\ \E ai \in AiOutcomes : CallGenerateBookmarkTags(ai)
    \/ /\ call.fn = "none"
       /\ \E op \in ServiceOps, site \in {"try", "outside"}, e \in InnerErrors :
              ServiceError(op, site, e)

SpecCalls == Init /\ [][NextCalls]_vars

\* The columns of one document under updates by its owner and by the worker
\* saving artifacts, until the document is deleted.
NextArtifacts ==
    \/ nextDocumentId = 1 /\ createDocument("u1", FALSE, {}, FALSE, "none", FALSE)
    \/ \E d \in DocIds, t \in {"undefined", "T1"}, tg \in BOOLEAN,
          tn \in SUBSET TagNames, f \in UpdateFailurePoints :
          nextDocumentId = 2 /\ updateDocument(d, "u1", t, tg, tn, f)
    \/ \E d \in DocIds, a \in ArtifactInputs, t \in {"undefined", "T1"},
          tg \in BOOLEAN, tn \in SUBSET TagNames, tf \in BOOLEAN :
          nextDocumentId = 2 /\ updateDocumentArtifacts(d, a, t, tg, tn, tf)
    \/ \E d \in DocIds : deleteDocument(d, "u1", TRUE, FALSE, FALSE)

SpecArtifacts == Init /\ [][NextArtifacts]_vars

\* Workers tagging documents at the same time: the documents exist, and each
\* call of addTagsToDocument runs statement by statement among the others.
InitTags ==
    /\ documents = [d \in RaceDocs |->
                       [userId |-> RaceOwner(d), storageId |-> OriginalKey(d),
                        title |-> "T0", keys |-> [f \in ArtifactFields |-> "null"]]]
    /\ blobs = {OriginalKey(d) : d \in RaceDocs}
    /\ tags = {}
    /\ documentsTags = {}
    /\ assetProcessingJobs = <<>>
    /\ queue = <<>>
    /\ workers = [w \in WorkerIds |-> IdleWorker]
    /\ nextDocumentId = 4
    /\ nextJobSeq = 1
    /\ latestJob = [d \in DocIds |-> 0]
    /\ last = Op("init", 0, "-", FALSE, "none", "none")
    /\ call = NoCall
    /\ taggers = [c \in TaggerIds |-> IdleTagger]
    /\ channels = <<>>
    /\ bots = {}
    /\ nextChannelId = 1

NextTags ==
    \/ \E c \in TaggerIds, d \in RaceDocs, tn \in SUBSET TagNames :
          addTagsStart(c, d, RaceOwner(d), tn)
    \/ \E c \in TaggerIds : addTagsInsert(c)
    \/ \E c \in TaggerIds : addTagsSelect(c)
    \/ \E c \in TaggerIds : addTagsLink(c)

SpecTags == InitTags /\ [][NextTags]_vars

\* The channels of two users under creation, update and deletion, with the
\* rejections of the database and of the history.
NextChannels ==
    \/ \E u \in Users, pf \in Platforms, c \in Configs \cup {"invalid"},
          f \in {"none", "insert", "history"}, st \in BOOLEAN :
          createChannel(u, pf, c, f, st)
    \/ \E ch \in ChannelIds, u \in Users, ia \in {"undefined", "true", "false"},
          c \in Configs \cup {"undefined", "invalid"},
          f \in {"none", "find", "update", "history"}, st \in BOOLEAN :
          updateChannel(ch, u, ia, c, f, st)
    \/ \E ch \in ChannelIds, u \in Users, f \in {"none", "find", "delete", "history"} :
          deleteChannel(ch, u, f)

SpecChannels == Init /\ [][NextChannels]_vars

\* generateOptimizedPdf on a page of the browser: its own steps are taken when
\* they can be; the events of the images are the browser's.
InitPdf ==
    /\ documents = <<>>
    /\ blobs = {}
    /\ tags = {}
    /\ documentsTags = {}
    /\ assetProcessingJobs = <<>>
    /\ queue = <<>>
    /\ workers = [w \in WorkerIds |-> IdleWorker]
    /\ nextDocumentId = 1
    /\ nextJobSeq = 1
    /\ latestJob = [d \in DocIds |-> 0]
    /\ last = Op("init", 0, "-", FALSE, "none", "none")
    /\ call \in PdfCalls
    /\ taggers = [c \in TaggerIds |-> IdleTagger]
    /\ channels = <<>>
    /\ bots = {}
    /\ nextChannelId = 1

NextPdf ==
    \/ \E i \in ImageIds, e \in {"load", "error"} : ImageFires(i, e)
    \/ PdfImagesLoaded
    \/ PdfSettled
    \/ PdfMediaEmulated
    \/ PdfRendered
    \/ PdfThrows

SpecPdf == InitPdf /\ [][NextPdf]_vars /\ WF_vars(PdfStep)

\* The documents of two users, each acting on its own documents and on the
\* other's through every operation that takes a document id and a user id.
NextOwners ==
    \/ \E u \in Users, en \in BOOLEAN, tn \in SUBSET TagNames :
          createDocument(u, en, tn, TRUE, "none", FALSE)
    \/ \E d \in DocIds, u \in Users : getDocumentById(d, u)
    \/ \E d \in DocIds, u \in Users, t \in {"undefined", "T1"}, tg \in BOOLEAN,
          tn \in SUBSET TagNames : updateDocument(d, u, t, tg, tn, "none")
    \/ \E d \in DocIds, u \in Users, at \in AssetTypes,
          se \in {"none", "ENOENT", "other"} : getDocumentAsset(d, u, at, se)
    \/ \E d \in DocIds, u \in Users, ds \in BOOLEAN :
          deleteDocument(d, u, ds, FALSE, FALSE)
    \/ \E d \in DocIds, u \in Users, f \in BOOLEAN : reprocessDocument(d, u, f)

SpecOwners == Init /\ [][NextOwners]_vars


\* ------------------------------------------------------------------ claims
\* The number of tags the tagging prompt asks for at most.
MaxTags == 5

AllStages(rec, status) == \A n \in Range(rec.stageNames) : rec.stages[n] = status

SomeStage(rec, status) == \E n \in Range(rec.stageNames) : rec.stages[n] = status

Waiting(q, jobId) == {i \in JobsOf(q, jobId) : q[i].state = "waiting"}

\* C1: in every reachable state, the overall status of every processing-job record
\* is completed exactly when every declared stage of that record is completed.
C1_CompletedIffAllStagesCompleted ==
    \A a \in DOMAIN assetProcessingJobs :
        (assetProcessingJobs[a].status = "completed")
            <=> AllStages(assetProcessingJobs[a], "completed")

\* A record with two declared stages that a worker has taken to completed.
C1_Witness ==
    \E a \in DOMAIN assetProcessingJobs :
        /\ Len(assetProcessingJobs[a].stageNames) = 2
        /\ assetProcessingJobs[a].status = "completed"
        /\ last.op = "advanceStage"

\* C2: in every reachable state, the overall status of every record is failed
\* exactly when some declared stage is failed (a retry resets the failed stage, and
\* with it the status), and it is processing exactly when no stage is failed and
\* not every stage is completed: the status is a function of the stages.
C2_FailedIffSomeStageFailed ==
    \A a \in DOMAIN assetProcessingJobs :
        LET rec == assetProcessingJobs[a]
        IN /\ rec.status \in {"processing", "completed", "failed"}
           /\ (rec.status = "failed") <=> SomeStage(rec, "failed")
           /\ (rec.status = "processing")
                  <=> (~SomeStage(rec, "failed") /\ ~AllStages(rec, "completed"))

\* A record whose first stage completed and whose second stage failed.
C2_Witness ==
    \E a \in DOMAIN assetProcessingJobs :
        /\ assetProcessingJobs[a].stageNames = <<"extract", "tag">>
        /\ assetProcessingJobs[a].stages["extract"] = "completed"
        /\ assetProcessingJobs[a].stages["tag"] = "failed"
        /\ assetProcessingJobs[a].status = "failed"

\* C3: in every reachable state, at most one non-terminal (waiting or active) job
\* with a given jobId is in the queue.
C3_AtMostOneNonTerminalJobPerId ==
    \A i, j \in 1..Len(queue) : queue[i].jobId = queue[j].jobId => i = j

\* C4: a reprocess without force of a document whose record is in status
\* processing reports a job in flight and leaves the record and the queue as they
\* were.
C4_RetryInFlightIsNoop ==
    [][\A d \in DocIds :
          ( /\ last'.op = "reprocessDocument" /\ last'.doc = d /\ ~last'.force
            /\ Owns(last'.user, d)
            /\ d \in DOMAIN assetProcessingJobs
            /\ assetProcessingJobs[d].status = "processing" )
          => ( /\ last'.result = "in_flight"
               /\ assetProcessingJobs' = assetProcessingJobs
               /\ queue' = queue
               /\ nextJobSeq' = nextJobSeq )]_vars

\* A retry without force has been refused while a job of the asset is in the queue.
C4_Witness ==
    /\ last.op = "reprocessDocument" /\ ~last.force /\ last.result = "in_flight"
    /\ JobsOf(queue, last.doc) # {}
    /\ assetProcessingJobs[last.doc].status = "processing"

C7_ProcessingHasJob ==
    \A a \in DOMAIN assetProcessingJobs :
        assetProcessingJobs[a].status = "processing" => JobsOf(queue, a) # {}

\* C8: in every reachable state, at most one worker is processing the pipeline of
\* a given asset.
C8_AtMostOneActiveWorkerPerAsset ==
    \A v, w \in WorkerIds :
        ( /\ workers[v].pc \in {"begin", "run"}
          /\ workers[w].pc \in {"begin", "run"}
          /\ workers[v].jobId = workers[w].jobId ) => v = w

\* C9: the stage transition written by a worker whose job is no longer the newest
\* one added for the asset is accepted like any other: the stage takes the value
\* written and the status is recomputed from it.
C9_StaleWriteAccepted ==
    [][\A w \in WorkerIds :
          ( /\ last'.op = "advanceStage" /\ last'.note = "stale"
            /\ workers'[w] # workers[w]
            /\ workers[w].jobId \in DOMAIN assetProcessingJobs
            /\ workers[w].stageNames[workers[w].idx]
                   \in DOMAIN assetProcessingJobs[workers[w].jobId].stages )
          => LET a == workers[w].jobId
                 n == workers[w].stageNames[workers[w].idx]
             IN /\ assetProcessingJobs'[a].stages[n] = last'.result
                /\ assetProcessingJobs'[a].status
                       = DeriveStatus(assetProcessingJobs'[a].stages) ]_vars

\* The newest job of the asset has finished and left the queue, and the record
\* shows failed, written afterwards by the worker of the older job.
C9_Witness ==
    /\ last.op = "advanceStage" /\ last.note = "stale" /\ last.result = "failed"
    /\ last.doc \in DOMAIN assetProcessingJobs
    /\ assetProcessingJobs[last.doc].status = "failed"
    /\ \A i \in 1..Len(queue) : queue[i].seq # latestJob[last.doc]
    /\ \A w \in WorkerIds : workers[w].seq # latestJob[last.doc]

\* C10: a step that removes a document removes its processing-job record and its
\* tag links with it, and no step removes the processing-job record of a document
\* that remains.
C10_JobRecordRemovedWithDocument ==
    [][\A d \in DocIds :
          /\ (d \in DOMAIN documents /\ d \notin DOMAIN documents')
                 => ( /\ d \notin DOMAIN assetProcessingJobs'
                      /\ \A l \in documentsTags' : l[1] # d )
          /\ (d \in DOMAIN documents /\ d \in DOMAIN documents'
                  /\ d \in DOMAIN assetProcessingJobs)
                 => d \in DOMAIN assetProcessingJobs' ]_vars

\* A document that had tag links and a processing-job record has been deleted.
C10_Witness ==
    /\ last.op = "deleteDocument" /\ last.result = "success"
    /\ last.doc = 1 /\ nextDocumentId = 2
    /\ 1 \notin DOMAIN documents
    /\ 1 \notin DOMAIN assetProcessingJobs
    /\ latestJob[1] > 0
    /\ tags # {}
\* C11: a createDocument of an enabled document that finds no queue handle fails;
\* it does not report success with the enqueue skipped.
C11_MissingQueueFails ==
    (last.op = "createDocument" /\ last.note = "no_queue") => last.result = "failed"

\* C12: after a createDocument that left no document row, the caller has the
\* generic failure and, unless the cleanup itself failed, the blob of the call is
\* not in storage; and no blob that was never referenced by a row is in storage
\* unless a cleanup failed.
C12_InsertFailureRemovesBlob ==
    (last.op = "createDocument" /\ last.doc \notin DOMAIN documents)
        => ( /\ last.result = "failed"
             /\ last.note # "cleanup_failed" => OriginalKey(last.doc) \notin blobs )

\* The insert failed after the blob was saved, and the blob is gone.
C12_Witness ==
    /\ last.op = "createDocument" /\ last.result = "failed" /\ last.note = "insert"
    /\ last.doc \notin DOMAIN documents
    /\ OriginalKey(last.doc) \notin blobs

\* C13: a call of extractContentFromHtml whose favicon step met an error (fetch,
\* URL, refused status or save) and whose content saves all succeeded does not
\* throw: the raw HTML, readable HTML, markdown and text are persisted, their four
\* storage keys are returned, and faviconStorageId is null.
C13_FaviconFailureDoesNotAbort ==
    ( /\ call.fn = "extractContentFromHtml"
      /\ FaviconFails(call.html, call.fav)
      /\ call.contentFailAt = "none" )
    => ( /\ ~call.thrown
         /\ DOMAIN call.stored = Range(ContentFiles)
         /\ call.result.rawHtmlStorageId = "content-raw.html"
         /\ call.result.readableHtmlStorageId = "content-readable.html"
         /\ call.result.extractedMdStorageId = "extracted.md"
         /\ call.result.extractedTxtStorageId = "extracted.txt"
         /\ call.result.faviconStorageId = "null" )

\* The save of a fetched favicon threw on a page with readable content, and the
\* call returned.
C13_Witness ==
    /\ call.fn = "extractContentFromHtml"
    /\ call.fav.fetch = "response" /\ call.fav.body = "bytes" /\ call.fav.saveFails
    /\ call.html.iconLink = "icon"
    /\ ~call.thrown
    /\ call.stored["content-readable.html"] # <<>>
    /\ call.result.faviconStorageId = "null"

\* C14: generateBookmarkTags does not throw for any outcome of the AI call and any
\* response text, and it returns the empty list whenever the call fails, the text
\* is not JSON, or the JSON is neither an array nor an object with a tags array.
C14_TaggingNeverThrows ==
    call.fn = "generateBookmarkTags"
        => ( /\ ~call.thrown
             /\ ( \/ call.ai.outcome # "response"
                  \/ ParsedText(call.ai).kind \notin {"array", "object_tags"} )
                    => call.tags = <<>> )

\* The AI answered with prose around a bare array, which is not JSON, and the
\* call returned the empty list.
C14_Witness ==
    /\ call.fn = "generateBookmarkTags"
    /\ call.ai.outcome = "response" /\ call.ai.fence = "none" /\ call.ai.prose
    /\ call.ai.payload.kind = "array" /\ "string" \in Range(call.ai.payload.items)
    /\ ~call.thrown /\ call.tags = <<>>

\* C15: the list returned by generateBookmarkTags has at most 5 entries, and every
\* entry is a string.
C15_AtMostFiveStringTags ==
    call.fn = "generateBookmarkTags"
        => ( /\ Len(call.tags) <= MaxTags
             /\ \A i \in 1..Len(call.tags) : call.tags[i] = "string" )

\* C16: the error an exported document-service operation throws when it meets an
\* error keeps the NOT_FOUND kind of a not-found condition and is otherwise a
\* generic error without internal detail.
C16_ErrorsAreGenericOrNotFound ==
    call.fn = "service"
        => ( /\ call.error.code = "NOT_FOUND" => call.thrown.code = "NOT_FOUND"
             /\ call.error.code # "NOT_FOUND"
                    => ( /\ call.thrown.message # "internal"
                         /\ call.thrown.code \in {"none", "NOT_FOUND"} ) )

\* C17: a storage-key field of a document is null when the document is created;
\* no step makes a field that holds a key null or empty; updateDocument changes no
\* storage-key field, and the only step that changes one is
\* updateDocumentArtifacts, which writes a key.
C17_StorageKeysNeverCleared ==
    [][\A d \in DocIds, f \in ArtifactFields :
          /\ (d \notin DOMAIN documents /\ d \in DOMAIN documents')
                 => documents'[d].keys[f] = "null"
          /\ (d \in DOMAIN documents /\ d \in DOMAIN documents')
                 => ( /\ documents[d].keys[f] # "null"
                          => documents'[d].keys[f] \in StorageKeys
                      /\ documents'[d].keys[f] # documents[d].keys[f]
                          => ( /\ last'.op = "updateDocumentArtifacts"
                               /\ documents'[d].keys[f] \in StorageKeys ) ) ]_vars

\* A call of updateDocumentArtifacts has overwritten a key, and a later
\* updateDocument by the owner has left the keys as they were.
C17_Witness ==
    /\ last.op = "updateDocument" /\ last.result = "updated"
    /\ last.doc \in DOMAIN documents
    /\ documents[last.doc].title = "T1"
    /\ documents[last.doc].keys["pdfStorageId"] = "k2"
    /\ documents[last.doc].keys["extractedMdStorageId"] = "k1"
    /\ documents[last.doc].keys["thumbnailStorageId"] = "null"

\* C18: under every interleaving of concurrent addTagsToDocument calls there is at
\* most one tag row per user and name, no call fails, and a call that has
\* returned has linked its document to the row of each of its names.
C18_TagsNeverDuplicated ==
    /\ \A r, q \in tags : (r.userId = q.userId /\ r.name = q.name) => r = q
    /\ \A c \in TaggerIds : taggers[c].pc # "failed"
    /\ \A c \in TaggerIds :
           taggers[c].pc = "done"
               => \A n \in taggers[c].names :
                      \E r \in tags : /\ r.userId = taggers[c].user /\ r.name = n
                                      /\ <<taggers[c].doc, r.id>> \in documentsTags

\* Two calls for different documents of one user with the same new name have both
\* returned, and a call of another user is between its insert and its select.
C18_Witness ==
    /\ taggers[1].pc = "done" /\ taggers[2].pc = "done" /\ taggers[3].pc = "select"
    /\ taggers[1].doc # taggers[2].doc
    /\ taggers[1].user = taggers[2].user /\ taggers[3].user # taggers[1].user
    /\ taggers[1].names = taggers[2].names
    /\ Cardinality(tags) = 2
    /\ \E r \in tags : /\ <<taggers[1].doc, r.id>> \in documentsTags
                       /\ <<taggers[2].doc, r.id>> \in documentsTags

\* C19: whatever script elements the raw HTML holds, the readable HTML and the
\* markdown that extractContentFromHtml persists hold none and no text of one.
C19_NoScriptInReadableOrMarkdown ==
    call.fn = "extractContentFromHtml"
        => ( /\ "content-readable.html" \in DOMAIN call.stored
                    => ~HasScript(call.stored["content-readable.html"])
             /\ "extracted.md" \in DOMAIN call.stored
                    => \A i \in 1..Len(call.stored["extracted.md"]) :
                           call.stored["extracted.md"][i].of # "script" )

\* A page with a script inside a block of readable content and a script at top
\* level has been extracted, and its readable HTML and markdown are persisted.
C19_Witness ==
    /\ call.fn = "extractContentFromHtml" /\ ~call.thrown
    /\ \E i, j \in 1..Len(call.html.elems) :
           /\ call.html.elems[i].tag = "script"
           /\ call.html.elems[j] = [tag |-> "div", kids |-> <<"p", "script">>]
    /\ HasScript(call.stored["content-raw.html"])
    /\ call.stored["content-readable.html"] # <<>>
    /\ call.stored["extracted.md"] # <<>>

\* How far along pending -> processing -> {completed, failed} a stage status is.
StageRank(status) ==
    CASE status = "pending" -> 0
      [] status = "processing" -> 1
      [] OTHER -> 2

\* C20: a step of advanceStage moves no stage backwards and no stage out of
\* completed or failed: a stage leaves a terminal status only by a retry or by the
\* record being declared again.
C20_StagesOnlyAdvance ==
    [][\A a \in DOMAIN assetProcessingJobs \cap DOMAIN assetProcessingJobs' :
          \A n \in DOMAIN assetProcessingJobs[a].stages
                       \cap DOMAIN assetProcessingJobs'[a].stages :
              LET old == assetProcessingJobs[a].stages[n]
                  new == assetProcessingJobs'[a].stages[n]
              IN /\ last'.op = "advanceStage" => StageRank(new) >= StageRank(old)
                 /\ (StageRank(old) = 2 /\ new # old)
                        => last'.op \in {"reprocessDocument", "createDocument",
                                         "createOrUpdateProcessingJob"} ]_vars

C22_ReadableFallsBackToBody ==
    ( /\ call.fn = "extractContentFromHtml" /\ ~call.thrown
      /\ ~Readability(RemoveScripts(call.html.elems), call.html.title).found )
    => ( /\ call.stored["content-readable.html"] = RemoveScripts(call.html.elems)
         /\ call.stored["extracted.md"] = turndown(RemoveScripts(call.html.elems))
         /\ call.result.title = call.html.title )

\* C23: the wait of generateOptimizedPdf for the images ends in every behaviour,
\* whatever the images do, and the call goes on to the settle delay, the screen
\* emulation and the A4 render in that order.
C23_ImageWaitIsBounded ==
    /\ <>(call.pc # "images")
    /\ [](call.pc = "returned" => call.steps = <<"images", "settle", "screen", "A4">>)

\* The favicon files a call of extractContentFromHtml left in storage.
PersistedFavicons ==
    IF call.fn = "extractContentFromHtml"
    THEN DOMAIN call.stored \ Range(ContentFiles)
    ELSE {}

\* The content-type table of the specification, by file name.
FaviconNameOfType ==
    [t \in ContentTypes |->
        CASE t = "image/svg+xml" -> "favicon.svg"
          [] t = "image/png" -> "favicon.png"
          [] t \in {"image/jpeg", "image/jpg"} -> "favicon.jpg"
          [] t = "image/gif" -> "favicon.gif"
          [] OTHER -> "favicon.ico"]

\* C24: the persisted favicon is named favicon plus the extension of the favicon
\* URL's path when the path has one, otherwise by the content-type table
\* (unknown or missing type: .ico); the /favicon.ico fallback is persisted under
\* the extension of its path, .ico, whatever the content type, and only when the
\* response status is exactly 200.
C24_FaviconFileName ==
    \A n \in PersistedFavicons :
        /\ PersistedFavicons = {n}
        /\ call.fav.fetch = "response" /\ call.fav.body = "bytes"
        /\ IF call.html.iconLink = "none"
           THEN n = "favicon.ico" /\ call.fav.status = 200
           ELSE IF call.fav.urlExt = ".png" THEN n = "favicon.png"
           ELSE n = FaviconNameOfType[call.fav.contentType]

C24_Witness ==
    /\ call.fn = "extractContentFromHtml"
    /\ call.html.iconLink = "none"
    /\ call.fav.status = 200 /\ call.fav.contentType = "image/png"
    /\ PersistedFavicons = {"favicon.ico"}
    /\ ~call.thrown /\ call.result.faviconStorageId = "favicon.ico"

\* C25: when createDocument fails, no document record remains whose storageId
\* names a blob that the cleanup of the failed call deleted.
C25_FailedCreateLeavesNoDanglingRecord ==
    [][(last'.op = "createDocument" /\ last'.result = "failed" /\ last' # last)
          => \A d \in DOMAIN documents' :
                 d = last'.doc => documents'[d].storageId \in blobs']_vars

\* The documents that were created and have since been deleted (in the pipeline
\* every createDocument inserts its record, so a missing record was deleted).
Deleted == {d \in DocIds : d < nextDocumentId /\ d \notin DOMAIN documents}

\* C26: once deleteDocument has succeeded for a document, no state holds a
\* processing-job record, a job in the queue or a worker at work for its id.
C26_DeletionLeavesNoWork ==
    \A d \in Deleted :
        /\ d \notin DOMAIN assetProcessingJobs
        /\ JobsOf(queue, d) = {}
        /\ \A w \in WorkerIds : workers[w].pc # "idle" => workers[w].jobId # d

\* The operations that take a document id and the id of the calling user.
OwnerOps ==
    {"getDocumentById", "updateDocument", "getDocumentAsset", "deleteDocument",
     "reprocessDocument"}

\* The step is one of these operations called by a user on a document that
\* another user owns.
ByAnotherUser ==
    /\ last'.op \in OwnerOps
    /\ last'.doc \in DOMAIN documents
    /\ documents[last'.doc].userId # last'.user

\* C27: an operation of user B on a document of user A leaves the record, the tag
\* links, the tags, the processing-job record, the blobs and the queue as they
\* were; the reads and the update report not found, deleteDocument reports
\* success, and reprocessDocument reports failure with no retry made.
C27_OwnerIsolation ==
    [][ByAnotherUser
          => /\ UNCHANGED <<documents, documentsTags, tags, assetProcessingJobs,
                            blobs, queue, nextJobSeq, latestJob>>
             /\ last'.op \in {"getDocumentById", "updateDocument", "getDocumentAsset"}
                    => last'.result = "not_found"
             /\ last'.op = "deleteDocument" => last'.result = "success"
             /\ last'.op = "reprocessDocument"
                    => last'.result = "failed" /\ last'.note = "none"]_vars

C27_Witness ==
    /\ last.op = "deleteDocument" /\ last.result = "success"
    /\ last.doc \in DOMAIN documents
    /\ documents[last.doc].userId # last.user
    /\ last.doc \in DOMAIN assetProcessingJobs
    /\ JobsOf(queue, last.doc) # {}
    /\ \E l \in documentsTags : l[1] = last.doc

\* The tag links of a document.
LinksOf(links, d) == {l \in links : l[1] = d}

\* C28: a call of updateDocument that throws leaves the tag set of the document
\* as it was before the call.
C28_FailedUpdateKeepsTags ==
    [][(last'.op = "updateDocument" /\ last'.result \in {"failed", "not_found"})
          => LinksOf(documentsTags', last'.doc) = LinksOf(documentsTags, last'.doc)]_vars

\* C29: a createDocument that returns with enabled=false (note none) has created
\* the record and the blob and neither a processing-job record nor a queue job;
\* one that returns with enabled=true (note added or no_queue) has created the
\* processing-job record and a queue job with jobId = id.
C29_EnabledDecidesJob ==
    [][(last'.op = "createDocument" /\ last'.result = "created" /\ last' # last)
          => /\ last'.doc \in DOMAIN documents'
             /\ OriginalKey(last'.doc) \in blobs'
             /\ IF last'.note = "none"
                THEN /\ last'.doc \notin DOMAIN assetProcessingJobs'
                     /\ JobsOf(queue', last'.doc) = {}
                ELSE /\ last'.doc \in DOMAIN assetProcessingJobs'
                     /\ JobsOf(queue', last'.doc) # {}]_vars

\* C30: after any sequence of finished createChannel, updateChannel and
\* deleteChannel calls, a Telegram bot runs for a channel only if the channel
\* exists and is active.
C30_BotsOnlyForActiveChannels ==
    \A c \in bots : c \in DOMAIN channels /\ channels[c].isActive

====
